---- MODULE Spec2Model ----
(***************************************************************************)
(* Menu translator: the client component (src/App.svelte, marker variant   *)
(* at lines 1-143 and list variant at lines 721-861), the Express proxy    *)
(* (server.js, src/unnamed/part_002) and the serverless handler with the   *)
(* Wikipedia image enrichment (api/analyze.js, src/unnamed/part_000).      *)
(*                                                                         *)
(* A response text is a sequence of tokens: "[" , "]" , "," , a prose      *)
(* character, or one JSON scalar/object literal.  JSON values are tagged   *)
(* records; JS strings are sequences of characters.  The popup selection   *)
(* (selectedTerm / expandedTerms) is rendering state and is not modelled.  *)
(***************************************************************************)
EXTENDS Integers, Sequences, FiniteSets, TLC

VARIABLES
    variant,        \* "marker" (App.svelte:1-143) or "list" (App.svelte:721-861)
    backend,        \* "express" (part_002) or "handler" (part_000)
    oracle,         \* the texts the vision model may answer with: "any", "dishes", "few", "lookup", "serve"
    uploadsLeft,    \* file selections the user still makes
    directLeft,     \* requests other callers still post to /api/analyze
    imageFile,      \* App.svelte:3
    imagePreview,   \* App.svelte:4
    isProcessing,   \* App.svelte:5
    matchedTerms,   \* App.svelte:6
    error,          \* App.svelte:8
    calls,          \* one record per handleImageUpload invocation
    srv             \* one record per request reaching the backend

vars == <<variant, backend, oracle, uploadsLeft, directLeft, imageFile, imagePreview,
          isProcessing, matchedTerms, error, calls, srv>>

clientVars == <<imageFile, imagePreview, isProcessing, matchedTerms, error>>

configVars == <<variant, backend, oracle>>

budgetVars == <<uploadsLeft, directLeft>>

-----------------------------------------------------------------------------
(* Bounds *)

MaxItems == 3       \* elements of a generated JSON array
MaxProse == 1       \* tokens of prose before / after the payload
MaxRawLen == 3      \* tokens of an unstructured response text
MaxDishes == 2      \* elements of an array answered to the serverless handler
MaxWrapped == 1     \* elements of an array written between prose
MaxUploads == 2     \* file selections in the runs with overlapping uploads

-----------------------------------------------------------------------------
(* JSON values *)

NULL == "null"

Undefined == [t |-> "undefined"]

Null == [t |-> "null"]

Num(n) == [t |-> "num", n |-> n]

Str(s) == [t |-> "str", s |-> s]

Obj(f) == [t |-> "obj", f |-> f]

Arr(e) == [t |-> "arr", e |-> e]

\* property read  v.k ; reading a property of null or undefined throws
GetThrows(v) == v.t \in {"null", "undefined"}

Get(v, k) ==
    IF v.t = "obj" /\ k \in DOMAIN v.f THEN v.f[k] ELSE Undefined

\* JS truthiness, as used by  &&  and  !
Truthy(v) ==
    CASE v.t = "undefined" -> FALSE
      [] v.t = "null" -> FALSE
      [] v.t = "num" -> v.n # 0
      [] v.t = "str" -> v.s # <<>>
      [] OTHER -> TRUE

TypeofNumber(v) == v.t = "num"

-----------------------------------------------------------------------------
(* Response texts *)

LB == [k |-> "lb"]

RB == [k |-> "rb"]

COMMA == [k |-> "comma"]

PROSE == [k |-> "prose"]

Lit(v) == [k |-> "val", v |-> v]

Pos(x, y) == Obj([x |-> x, y |-> y])

Dish(n, d) == Obj([name |-> n, definition |-> d])

DishAt(n, d, p) == Obj([name |-> n, definition |-> d, position |-> p])

sArancini == Str(<<"A", "r">>)

sNorma == Str(<<"N", "(", "a", ")">>)

sDef == Str(<<"d">>)

\* object and scalar literals the vision model is taken to write
Atoms ==
    { Dish(sArancini, sDef),
      DishAt(sNorma, sDef, Pos(Num(25), Num(30))),
      DishAt(sArancini, sDef, Pos(Num(150), Num(30))),
      DishAt(sArancini, sDef, Pos(Str(<<"2">>), Num(30))),
      DishAt(Num(7), sDef, Pos(Num(25), Num(30))),
      DishAt(Str(<<>>), sDef, Pos(Num(25), Num(30))),
      Obj([name |-> sArancini]),
      Null }

RECURSIVE SeqsUpTo(_, _)
SeqsUpTo(S, n) ==
    IF n = 0 THEN {<<>>}
    ELSE LET prev == SeqsUpTo(S, n - 1)
         IN  prev \cup {Append(s, x) : s \in {p \in prev : Len(p) = n - 1}, x \in S}

RECURSIVE Stringify(_)
RECURSIVE JoinElems(_, _)
\* JSON.stringify : an array is written with brackets and commas
Stringify(v) ==
    IF v.t = "arr" THEN <<LB>> \o JoinElems(v.e, 1) \o <<RB>>
    ELSE <<Lit(v)>>

JoinElems(e, i) ==
    IF i > Len(e) THEN <<>>
    ELSE IF i = Len(e) THEN Stringify(e[i])
    ELSE Stringify(e[i]) \o <<COMMA>> \o JoinElems(e, i + 1)

ProseSeqs == SeqsUpTo({PROSE, LB, RB}, MaxProse)

Payloads ==
    {Stringify(Arr(e)) : e \in SeqsUpTo(Atoms, MaxItems)}

WrappedPayloads ==
    {Stringify(Arr(e)) : e \in SeqsUpTo(Atoms, MaxWrapped)}

StructuredTexts ==
    Payloads
    \cup {pre \o mid \o post :
             pre \in ProseSeqs, mid \in WrappedPayloads, post \in ProseSeqs}

RawTexts ==
    SeqsUpTo({LB, RB, COMMA, PROSE} \cup {Lit(a) : a \in Atoms}, MaxRawLen)

Texts == StructuredTexts \cup RawTexts

\* a dish the vision model wrote with an imageUrl of its own
DishWithImage ==
    Obj([name |-> sNorma, definition |-> sDef, imageUrl |-> Str(<<"m">>)])

\* literals of the answers given to the serverless handler
DishAtoms ==
    { Dish(sNorma, sDef),
      Obj([definition |-> sDef]),
      Dish(Num(7), sDef),
      Null }

DishTexts ==
    {Stringify(Arr(e)) : e \in SeqsUpTo(DishAtoms, MaxDishes)}
    \cup {<<PROSE>>, <<LB, COMMA, RB>>,
          <<PROSE, LB, Lit(Dish(sArancini, sDef)), RB, PROSE>>,
          <<LB, Lit(Obj([name |-> sNorma])), RB>>,
          <<LB, Lit(DishWithImage), RB>>,
          <<PROSE, LB, RB>>}

\* the answers of the vision model, a black box returning free-form text
\* answers used where several requests are in flight
FewTexts ==
    { <<LB, Lit(Dish(sArancini, sDef)), RB>>,
      <<LB, Lit(Dish(sNorma, sDef)), COMMA, Lit(Dish(sArancini, sDef)), RB>>,
      <<PROSE>> }

\* names of the dishes of the runs of a single lookup
LookupNames ==
    { <<"N", "(", "a", ")">>,
      <<"N", " ", "(", ")">>,
      <<"(", ")", " ", "N", "a">>,
      <<"[", "N", "]">> }

\* answers of one dish each
LookupTexts == {<<LB, Lit(Dish(Str(n), sDef)), RB>> : n \in LookupNames}

\* answers of the runs of the two servers: no span, an undecodable span, an
\* empty list, one dish, two dishes, a dish next to null
ServeTexts ==
    { <<PROSE>>,
      <<LB, COMMA, RB>>,
      <<LB, RB>>,
      <<LB, Lit(Dish(sArancini, sDef)), RB>>,
      <<LB, Lit(Dish(sNorma, sDef)), COMMA, Lit(Dish(sArancini, sDef)), RB>>,
      <<LB, Lit(Dish(sNorma, sDef)), COMMA, Lit(Null), RB>> }

ModelTexts(o) ==
    IF o = "any" THEN Texts
    ELSE IF o = "serve" THEN ServeTexts
    ELSE IF o = "dishes" THEN DishTexts
    ELSE IF o = "lookup" THEN LookupTexts
    ELSE FewTexts

-----------------------------------------------------------------------------
(* String.prototype.match(/\[[\s\S]*\]/) and JSON.parse *)

NoMatch == <<>>

\* variant of FirstLB that starts the span at the last "["
FirstLBLast(text) ==
    IF \E i \in 1..Len(text) : text[i] = LB
    THEN CHOOSE i \in 1..Len(text) : text[i] = LB /\ \A j \in (i + 1)..Len(text) : text[j] # LB
    ELSE 0

FirstLB(text) ==
    IF \E i \in 1..Len(text) : text[i] = LB
    THEN CHOOSE i \in 1..Len(text) : text[i] = LB /\ \A j \in 1..(i - 1) : text[j] # LB
    ELSE 0

LastRB(text) ==
    IF \E i \in 1..Len(text) : text[i] = RB
    THEN CHOOSE i \in 1..Len(text) : text[i] = RB /\ \A j \in (i + 1)..Len(text) : text[j] # RB
    ELSE 0

\* the greedy bracket span, or NoMatch (the empty sequence) when match() is null
JsonMatch(text) ==
    IF FirstLB(text) > 0 /\ LastRB(text) > FirstLB(text)
    THEN SubSeq(text, FirstLB(text), LastRB(text))
    ELSE NoMatch

ParseFail == [ok |-> FALSE, v |-> Undefined, next |-> 0]

RECURSIVE ParseValue(_, _)
RECURSIVE ParseElems(_, _, _)
\* variant of ParseValue that refuses the empty array
ParseValueNoEmpty(toks, i) ==
    IF i > Len(toks) THEN ParseFail
    ELSE IF toks[i].k = "val" THEN [ok |-> TRUE, v |-> toks[i].v, next |-> i + 1]
    ELSE IF toks[i].k = "lb" THEN ParseElems(toks, i + 1, <<>>)
    ELSE ParseFail

ParseValue(toks, i) ==
    IF i > Len(toks) THEN ParseFail
    ELSE IF toks[i].k = "val" THEN [ok |-> TRUE, v |-> toks[i].v, next |-> i + 1]
    ELSE IF toks[i].k = "lb"
         THEN IF i + 1 <= Len(toks) /\ toks[i + 1].k = "rb"
              THEN [ok |-> TRUE, v |-> Arr(<<>>), next |-> i + 2]
              ELSE ParseElems(toks, i + 1, <<>>)
    ELSE ParseFail

ParseElems(toks, i, acc) ==
    LET r == ParseValue(toks, i)
    IN  IF ~r.ok \/ r.next > Len(toks) THEN ParseFail
        ELSE IF toks[r.next].k = "comma"
             THEN ParseElems(toks, r.next + 1, Append(acc, r.v))
        ELSE IF toks[r.next].k = "rb"
             THEN [ok |-> TRUE, v |-> Arr(Append(acc, r.v)), next |-> r.next + 1]
        ELSE ParseFail

\* JSON.parse : [ok |-> FALSE] stands for the SyntaxError
JsonParse(toks) ==
    LET r == ParseValue(toks, 1)
    IN  IF r.ok /\ r.next = Len(toks) + 1
        THEN [ok |-> TRUE, v |-> r.v]
        ELSE [ok |-> FALSE, v |-> Undefined]

-----------------------------------------------------------------------------
(* Client: src/App.svelte *)

Variants == {"marker", "list"}

validImageTypes == {"image/jpeg", "image/png", "image/gif", "image/webp"}

Files == {"menu.png", "notes.txt", "torn.jpg", "empty.png"}

NoFile == "nofile"

FileType(f) ==
    CASE f = "menu.png" -> "image/png"
      [] f = "notes.txt" -> "text/plain"
      [] f = "torn.jpg" -> "image/jpeg"
      [] f = "empty.png" -> "image/png"

\* FileReader.readAsDataURL succeeds
Readable(f) == f # "torn.jpg"

\* base64Image.split(',')[1]
Base64Data(f) == IF f = "empty.png" THEN "" ELSE "b64"

\* pixel dimensions and size (in units of 0.5 MB) of the selected files
FilePixels(f) ==
    CASE f = "menu.png" -> [w |-> 4000, h |-> 3000, bytes |-> 10]
      [] f = "notes.txt" -> [w |-> 0, h |-> 0, bytes |-> 1]
      [] f = "torn.jpg" -> [w |-> 800, h |-> 600, bytes |-> 1]
      [] f = "empty.png" -> [w |-> 0, h |-> 0, bytes |-> 0]

\* the image in the body of the request: the file as it was read, with the
\* number of re-encodings it went through and the quality (in tenths) of
\* the last one, 10 when there was none
PostedImage(f) ==
    [w |-> FilePixels(f).w, h |-> FilePixels(f).h, bytes |-> FilePixels(f).bytes,
     encodes |-> 0, q |-> 10]

ErrReadFile == "Failed to read image file. Please try another file."

ErrFileType == "Please upload a valid image file (JPEG, PNG, GIF, or WebP)."

ErrAnalyze == "Failed to analyze image. Please try again."

ErrFormat == "Unexpected response format from API."

ErrParse == "Failed to parse response. Please try again."

ErrFetch == "Failed to fetch"

NoReq == [method |-> "", image |-> "", mediaType |-> ""]

NoResp == [status |-> 0, err |-> "", content |-> <<>>]

\* res.json({ success: true, response: message })
Response200(text) == [status |-> 200, err |-> "", content |-> <<text>>]

\* the callback of parsed.every(...), marker variant
ValidMarkerItem(item) ==
    /\ Truthy(Get(item, "name"))
    /\ Truthy(Get(item, "definition"))
    /\ Truthy(Get(item, "position"))
    /\ TypeofNumber(Get(Get(item, "position"), "x"))
    /\ TypeofNumber(Get(Get(item, "position"), "y"))

\* the callback of parsed.every(...), list variant
ValidListItem(item) ==
    /\ Truthy(Get(item, "name"))
    /\ Truthy(Get(item, "definition"))

ValidItem(v, item) ==
    IF v = "marker" THEN ValidMarkerItem(item) ELSE ValidListItem(item)

\* index of the element at which every() stops early, 0 when it runs through
FirstStop(v, e) ==
    IF \E i \in 1..Len(e) : GetThrows(e[i]) \/ ~ValidItem(v, e[i])
    THEN CHOOSE i \in 1..Len(e) :
            /\ GetThrows(e[i]) \/ ~ValidItem(v, e[i])
            /\ \A j \in 1..(i - 1) : ~GetThrows(e[j]) /\ ValidItem(v, e[j])
    ELSE 0

\* Array.isArray(parsed) && parsed.every(...) : "true", "false" or "throw"
Validate(v, parsed) ==
    IF parsed.t # "arr" THEN "false"
    ELSE LET i == FirstStop(v, parsed.e)
         IN  IF i = 0 THEN "true"
             ELSE IF GetThrows(parsed.e[i]) THEN "throw"
             ELSE "false"

\* variant of ParseResponse that keeps the valid elements of an invalid list
ParseResponseFiltering(v, responseText) ==
    LET jsonMatch == JsonMatch(responseText)
        parsed == JsonParse(jsonMatch)
        Keep(item) == ~GetThrows(item) /\ ValidItem(v, item)
    IN  IF jsonMatch = NoMatch THEN [terms |-> <<>>, err |-> NULL]
        ELSE IF ~parsed.ok THEN [terms |-> <<>>, err |-> ErrParse]
        ELSE [terms |-> SelectSeq(parsed.v.e, Keep), err |-> NULL]

\* variant of ParseResponse that reports a text without span as a failure
ParseResponseNoSpanFails(v, responseText) ==
    LET jsonMatch == JsonMatch(responseText)
        parsed == JsonParse(jsonMatch)
    IN  IF jsonMatch = NoMatch THEN [terms |-> <<>>, err |-> ErrParse]
        ELSE IF ~parsed.ok THEN [terms |-> <<>>, err |-> ErrParse]
        ELSE IF Validate(v, parsed.v) = "throw" THEN [terms |-> <<>>, err |-> ErrParse]
        ELSE IF Validate(v, parsed.v) = "true" THEN [terms |-> parsed.v.e, err |-> NULL]
        ELSE [terms |-> <<>>, err |-> NULL]

\* variant of ParseResponse that swallows the decode error
ParseResponseSilent(v, responseText) ==
    LET jsonMatch == JsonMatch(responseText)
        parsed == JsonParse(jsonMatch)
    IN  IF jsonMatch = NoMatch THEN [terms |-> <<>>, err |-> NULL]
        ELSE IF ~parsed.ok THEN [terms |-> <<>>, err |-> NULL]
        ELSE IF Validate(v, parsed.v) = "throw" THEN [terms |-> <<>>, err |-> ErrParse]
        ELSE IF Validate(v, parsed.v) = "true" THEN [terms |-> parsed.v.e, err |-> NULL]
        ELSE [terms |-> <<>>, err |-> NULL]

\* the inner try/catch of processImage : what it assigns to matchedTerms and
\* to error (NULL in err: error is left as it is)
ParseResponse(v, responseText) ==
    LET jsonMatch == JsonMatch(responseText)
        parsed == JsonParse(jsonMatch)
    IN  IF jsonMatch = NoMatch THEN [terms |-> <<>>, err |-> NULL]
        ELSE IF ~parsed.ok THEN [terms |-> <<>>, err |-> ErrParse]
        ELSE IF Validate(v, parsed.v) = "throw" THEN [terms |-> <<>>, err |-> ErrParse]
        ELSE IF Validate(v, parsed.v) = "true" THEN [terms |-> parsed.v.e, err |-> NULL]
        ELSE [terms |-> <<>>, err |-> NULL]

Live(c) == c \in 1..Len(calls)

SetCall(c, pc) == calls' = [calls EXCEPT ![c].pc = pc]

\* handleImageUpload up to its first await
Upload(f) ==
    /\ uploadsLeft > 0
    /\ imagePreview = NULL
    /\ uploadsLeft' = uploadsLeft - 1
    /\ UNCHANGED directLeft
    /\ IF f = NoFile
       THEN UNCHANGED <<clientVars, calls, srv>>
       ELSE /\ imageFile' = f
            /\ error' = NULL
            /\ matchedTerms' = <<>>
            /\ calls' = Append(calls, [file |-> f, pc |-> "readPreview", resp |-> NoResp,
                                        fetches |-> 0, replies |-> 0])
            /\ srv' = Append(srv, [pc |-> "none", req |-> NoReq, text |-> <<>>,
                                    lookups |-> <<>>, thrown |-> 0, modelCalls |-> 0])
            /\ UNCHANGED <<imagePreview, isProcessing>>
    /\ UNCHANGED configVars

\* the preview read settles; on success processImage runs up to its first await
PreviewRead(c) ==
    /\ Live(c)
    /\ calls[c].pc = "readPreview"
    /\ IF ~Readable(calls[c].file)
       THEN /\ error' = ErrReadFile
            /\ imageFile' = NULL
            /\ SetCall(c, "done")
            /\ UNCHANGED <<imagePreview, isProcessing>>
       ELSE /\ imagePreview' = calls[c].file
            /\ UNCHANGED imageFile
            /\ IF FileType(calls[c].file) \notin validImageTypes
               THEN /\ error' = ErrFileType
                    /\ isProcessing' = FALSE
                    /\ SetCall(c, "done")
               ELSE /\ error' = NULL
                    /\ isProcessing' = TRUE
                    /\ SetCall(c, "readB64")
    /\ UNCHANGED <<matchedTerms, srv, budgetVars, configVars>>

\* processImage: fileToBase64 settles, then fetch('/api/analyze') is issued
B64Read(c) ==
    /\ Live(c)
    /\ calls[c].pc = "readB64"
    /\ \E ok \in BOOLEAN :
          IF ok
          THEN /\ calls' = [calls EXCEPT ![c].pc = "fetch", ![c].fetches = @ + 1]
               /\ srv' = [srv EXCEPT ![c] =
                            [pc |-> "recv",
                             req |-> [method |-> "POST",
                                      image |-> Base64Data(calls[c].file),
                                      mediaType |-> FileType(calls[c].file)],
                             text |-> <<>>,
                             lookups |-> <<>>,
                             thrown |-> 0,
                             modelCalls |-> 0]]
               /\ UNCHANGED <<error, isProcessing>>
          ELSE /\ SetCall(c, "done")
               /\ error' = ErrAnalyze
               /\ isProcessing' = FALSE
               /\ UNCHANGED srv
    /\ UNCHANGED <<imageFile, imagePreview, matchedTerms, budgetVars, configVars>>

\* processImage: fetch rejects (outer catch, finally)
FetchFail(c) ==
    /\ Live(c)
    /\ calls[c].pc = "fetch"
    /\ calls[c].resp = NoResp
    /\ SetCall(c, "done")
    /\ error' = ErrFetch
    /\ isProcessing' = FALSE
    /\ UNCHANGED <<imageFile, imagePreview, matchedTerms, srv, budgetVars, configVars>>

\* processImage from the arrival of the response to its end: what it leaves
\* in matchedTerms and error, given their values terms0 and err0 before
ClientOutcome(v, terms0, err0, resp) ==
    LET ok == resp.status \in 200..299
        hasText == Len(resp.content) > 0 /\ resp.content[1] # <<>>
        out == ParseResponse(v, resp.content[1])
    IN  IF ~ok
        THEN [terms |-> terms0, err |-> IF resp.err # "" THEN resp.err ELSE ErrAnalyze]
        ELSE IF ~hasText
        THEN [terms |-> terms0, err |-> ErrFormat]
        ELSE [terms |-> out.terms, err |-> IF out.err = NULL THEN err0 ELSE out.err]

\* variant of Respond that posts the request again when it is rate limited
RespondRetrying(c) ==
    /\ Live(c)
    /\ calls[c].pc = "fetch"
    /\ calls[c].resp # NoResp
    /\ IF calls[c].resp.status = 429 /\ calls[c].fetches < 2
       THEN /\ calls' = [calls EXCEPT ![c].resp = NoResp, ![c].fetches = @ + 1]
            /\ srv' = [srv EXCEPT ![c].pc = "recv", ![c].thrown = 0]
            /\ UNCHANGED <<clientVars, budgetVars, configVars>>
       ELSE /\ LET out == ClientOutcome(variant, matchedTerms, error, calls[c].resp)
               IN  /\ matchedTerms' = out.terms
                   /\ error' = out.err
            /\ isProcessing' = FALSE
            /\ SetCall(c, "done")
            /\ UNCHANGED <<imageFile, imagePreview, srv, budgetVars, configVars>>

\* processImage from the arrival of the response to its end
Respond(c) ==
    /\ Live(c)
    /\ calls[c].pc = "fetch"
    /\ calls[c].resp # NoResp
    /\ LET out == ClientOutcome(variant, matchedTerms, error, calls[c].resp)
       IN  /\ matchedTerms' = out.terms
           /\ error' = out.err
    /\ isProcessing' = FALSE
    /\ SetCall(c, "done")
    /\ UNCHANGED <<imageFile, imagePreview, srv, budgetVars, configVars>>

\* reset() ; both buttons are rendered only when a preview is shown and
\* isProcessing is false
Reset ==
    /\ imagePreview # NULL
    /\ ~isProcessing
    /\ imageFile' = NULL
    /\ imagePreview' = NULL
    /\ isProcessing' = FALSE
    /\ matchedTerms' = <<>>
    /\ error' = NULL
    /\ UNCHANGED <<calls, srv, budgetVars, configVars>>

-----------------------------------------------------------------------------
(* Backend: validation, call of the vision model, error translation *)

validTypes == {"image/jpeg", "image/png", "image/gif", "image/webp"}

ErrMethod == "Method not allowed"

ErrMissing == "Missing required fields: image and mediaType"

ErrMediaType == "Invalid media type. Must be JPEG, PNG, GIF, or WebP"

ErrApiKey ==
    IF backend = "express"
    THEN "Invalid API key. Check your .env file."
    ELSE "Invalid API key. Check your environment variables."

ErrRate == "Rate limited. Please try again in a moment."

ErrUpstream == "Anthropic API is experiencing issues. Please try again later."

ErrNoBlock == "Cannot read properties of undefined (reading 'text')"

ErrBadRequest == "400 invalid_request_error"

\* what anthropic.messages.create can throw: the status of an API error
UpstreamErrors == {401, 429, 500, 503, 400}

\* error.status of an error that is not an API error (undefined)
NoStatus == -1

\* variant of ErrorResponse that answers a server-side failure with its status
ErrorResponseSameStatus(status) ==
    IF status = 401 THEN [status |-> 401, err |-> ErrApiKey, content |-> <<>>]
    ELSE IF status = 429 THEN [status |-> 429, err |-> ErrRate, content |-> <<>>]
    ELSE IF status >= 500 THEN [status |-> status, err |-> ErrUpstream, content |-> <<>>]
    ELSE [status |-> 500, err |-> ErrBadRequest, content |-> <<>>]

\* the catch block of the route / handler
ErrorResponse(status) ==
    IF status = 401 THEN [status |-> 401, err |-> ErrApiKey, content |-> <<>>]
    ELSE IF status = 429 THEN [status |-> 429, err |-> ErrRate, content |-> <<>>]
    ELSE IF status >= 500 THEN [status |-> 502, err |-> ErrUpstream, content |-> <<>>]
    ELSE [status |-> 500, err |-> ErrBadRequest, content |-> <<>>]

Reply(c, resp) ==
    /\ calls' = [calls EXCEPT ![c].resp = resp, ![c].replies = @ + 1]

\* variant of MissingFieldsResponse that reuses the media type message
MissingFieldsResponseSameMessage == [status |-> 400, err |-> ErrMediaType, content |-> <<>>]

MissingFieldsResponse == [status |-> 400, err |-> ErrMissing, content |-> <<>>]

MediaTypeResponse == [status |-> 400, err |-> ErrMediaType, content |-> <<>>]

\* requests of callers other than the page
DirectRequests ==
    [method : {"POST", "GET"}, image : {"", "b64"},
     mediaType : {"", "image/png", "text/plain"}]

\* another caller posts to /api/analyze ; server.js routes POST only
DirectRequest(req) ==
    /\ directLeft > 0
    /\ backend = "express" => req.method = "POST"
    /\ directLeft' = directLeft - 1
    /\ calls' = Append(calls, [file |-> NoFile, pc |-> "direct", resp |-> NoResp,
                                fetches |-> 0, replies |-> 0])
    /\ srv' = Append(srv, [pc |-> "recv", req |-> req, text |-> <<>>, lookups |-> <<>>,
                            thrown |-> 0, modelCalls |-> 0])
    /\ UNCHANGED <<clientVars, uploadsLeft, configVars>>

\* variant of Receive that lets any media type through to the model call
ReceiveNoTypeCheck(c) ==
    /\ Live(c)
    /\ srv[c].pc = "recv"
    /\ LET req == srv[c].req
       IN  IF req.method # "POST"
           THEN /\ Reply(c, [status |-> 405, err |-> ErrMethod, content |-> <<>>])
                /\ srv' = [srv EXCEPT ![c].pc = "sent"]
           ELSE IF req.image = "" \/ req.mediaType = ""
           THEN /\ Reply(c, MissingFieldsResponse)
                /\ srv' = [srv EXCEPT ![c].pc = "sent"]
           ELSE /\ srv' = [srv EXCEPT ![c].pc = "model", ![c].modelCalls = @ + 1]
                /\ UNCHANGED calls
    /\ UNCHANGED <<clientVars, budgetVars, configVars>>

\* method check (api/analyze.js) and request validation, up to the await of
\* anthropic.messages.create
ReceiveNoReturn(c) ==
    /\ Live(c)
    /\ srv[c].pc = "recv"
    /\ LET req == srv[c].req
       IN  IF req.method # "POST"
           THEN /\ Reply(c, [status |-> 405, err |-> ErrMethod, content |-> <<>>])
                /\ srv' = [srv EXCEPT ![c].pc = "model"]
           ELSE IF req.image = "" \/ req.mediaType = ""
           THEN /\ Reply(c, MissingFieldsResponse)
                /\ srv' = [srv EXCEPT ![c].pc = "sent"]
           ELSE IF req.mediaType \notin validTypes
           THEN /\ Reply(c, MediaTypeResponse)
                /\ srv' = [srv EXCEPT ![c].pc = "sent"]
           ELSE /\ srv' = [srv EXCEPT ![c].pc = "model", ![c].modelCalls = @ + 1]
                /\ UNCHANGED calls
    /\ UNCHANGED <<clientVars, budgetVars, configVars>>

Receive(c) ==
    /\ Live(c)
    /\ srv[c].pc = "recv"
    /\ LET req == srv[c].req
       IN  IF req.method # "POST"
           THEN /\ Reply(c, [status |-> 405, err |-> ErrMethod, content |-> <<>>])
                /\ srv' = [srv EXCEPT ![c].pc = "sent"]
           ELSE IF req.image = "" \/ req.mediaType = ""
           THEN /\ Reply(c, MissingFieldsResponse)
                /\ srv' = [srv EXCEPT ![c].pc = "sent"]
           ELSE IF req.mediaType \notin validTypes
           THEN /\ Reply(c, MediaTypeResponse)
                /\ srv' = [srv EXCEPT ![c].pc = "sent"]
           ELSE /\ srv' = [srv EXCEPT ![c].pc = "model", ![c].modelCalls = @ + 1]
                /\ UNCHANGED calls
    /\ UNCHANGED <<clientVars, budgetVars, configVars>>

\* server.js: the model call settles and the route answers
ExpressReply(c) ==
    /\ backend = "express"
    /\ Live(c)
    /\ srv[c].pc = "model"
    /\ \/ /\ \E text \in ModelTexts(oracle) : Reply(c, Response200(text))
          /\ srv' = [srv EXCEPT ![c].pc = "sent"]
       \/ /\ Reply(c, [status |-> 500, err |-> ErrNoBlock, content |-> <<>>])
          /\ srv' = [srv EXCEPT ![c].pc = "sent", ![c].thrown = NoStatus]
       \/ \E st \in UpstreamErrors :
            /\ Reply(c, ErrorResponse(st))
            /\ srv' = [srv EXCEPT ![c].pc = "sent", ![c].thrown = st]
    /\ UNCHANGED <<clientVars, budgetVars, configVars>>

-----------------------------------------------------------------------------
(* api/analyze.js: Wikipedia image enrichment *)

srlimit == 3

sFood == <<" ", "f", "o", "o", "d">>

sDish == <<" ", "d", "i", "s", "h">>

RECURSIVE TrimLeft(_)
TrimLeft(s) ==
    IF s # <<>> /\ Head(s) = " " THEN TrimLeft(Tail(s)) ELSE s

RECURSIVE TrimRight(_)
TrimRight(s) ==
    IF s # <<>> /\ s[Len(s)] = " " THEN TrimRight(SubSeq(s, 1, Len(s) - 1)) ELSE s

IsNotParen(ch) == ch \notin {"(", ")"}

\* dishName.replace(/[()]/g, '').trim()
StripParens(s) == TrimRight(TrimLeft(SelectSeq(s, IsNotParen)))

SearchTermsUntrimmed(s) == <<s, s \o sFood, s \o sDish, SelectSeq(s, IsNotParen)>>

\* the searchTerms array of getWikipediaImage, for a string dishName
SearchTerms(s) == <<s, s \o sFood, s \o sDish, StripParens(s)>>

DigitChar(n) == CASE n = 1 -> "1" [] n = 2 -> "2" [] n = 3 -> "3" [] n = 4 -> "4" [] OTHER -> "9"

\* thumbnail.source of candidate cand of the search for term number term
ThumbUrl(term, cand) == Str(<<"u", DigitChar(term), DigitChar(cand)>>)

\* a search request throws, answers a non-success status, answers no result,
\* or answers n results, at most srlimit
SearchOutcomesUnlimited ==
    {[kind |-> k, n |-> 0] : k \in {"throw", "notok", "empty"}}
    \cup {[kind |-> "hits", n |-> n] : n \in 1..(srlimit + 1)}

SearchOutcomes ==
    {[kind |-> k, n |-> 0] : k \in {"throw", "notok", "empty"}}
    \cup {[kind |-> "hits", n |-> n] : n \in 1..srlimit}

SummaryOutcomes == {"thumb", "nothumb", "notok", "throw"}

\* variant of MapResult that builds the enriched item from the name alone
MapResultNameOnly(dish, imageUrl) ==
    IF Truthy(imageUrl)
    THEN Obj([name |-> dish.f.name, imageUrl |-> imageUrl])
    ELSE dish

\* variant of MapResult that always writes the imageUrl field
MapResultNullUrl(dish, imageUrl) ==
    IF dish.t = "obj"
    THEN Obj([k \in DOMAIN dish.f \cup {"imageUrl"} |->
                 IF k = "imageUrl" THEN imageUrl ELSE dish.f[k]])
    ELSE dish

\* what the callback of dishes.map returns
MapResult(dish, imageUrl) ==
    IF Truthy(imageUrl)
    THEN Obj([k \in DOMAIN dish.f \cup {"imageUrl"} |->
                 IF k = "imageUrl" THEN imageUrl ELSE dish.f[k]])
    ELSE dish

\* the runs of a single lookup keep, per search request issued, the term
\* queried, the number of results answered, the number of summaries
\* requested and whether a summary request threw
Audited == oracle = "lookup"

LogIssued(l, t) ==
    IF Audited
    THEN Append(l.log, [term |-> SearchTerms(Get(l.dish, "name").s)[t],
                        got |-> 0, asked |-> 0, threw |-> FALSE])
    ELSE l.log

LogGot(l, n) ==
    IF Audited THEN [l.log EXCEPT ![Len(l.log)].got = n, ![Len(l.log)].asked = 1]
    ELSE l.log

LogAsked(l) ==
    IF Audited THEN [l.log EXCEPT ![Len(l.log)].asked = @ + 1] ELSE l.log

LogThrew(l) ==
    IF Audited THEN [l.log EXCEPT ![Len(l.log)].threw = TRUE] ELSE l.log

SettledLookup(dish, url) ==
    [dish |-> dish, pc |-> "done", term |-> 0, cand |-> 0, ncands |-> 0,
     url |-> url, out |-> MapResult(dish, url), log |-> <<>>]

\* getWikipediaImage returns url to the callback of lookup l
Settle(l, url) == [SettledLookup(l.dish, url) EXCEPT !.log = l.log]

\* variant of StartLookup that searches whatever the name is
StartLookupAnyName(dish) ==
    IF GetThrows(dish)
    THEN [dish |-> dish, pc |-> "rejected", term |-> 0, cand |-> 0, ncands |-> 0,
          url |-> Null, out |-> dish, log |-> <<>>]
    ELSE [dish |-> dish, pc |-> "search", term |-> 1, cand |-> 0, ncands |-> 0,
          url |-> Null, out |-> dish,
          log |-> LogIssued([dish |-> dish, log |-> <<>>], 1)]

\* the callback of dishes.map for one dish, up to its first await: reading
\* dish.name of null throws, again in the catch block, and the promise
\* rejects; dishName.replace of a non-string throws and the catch block
\* returns the dish; otherwise the first search request is issued
StartLookup(dish) ==
    IF GetThrows(dish)
    THEN [dish |-> dish, pc |-> "rejected", term |-> 0, cand |-> 0, ncands |-> 0,
          url |-> Null, out |-> dish, log |-> <<>>]
    ELSE IF Get(dish, "name").t # "str"
    THEN SettledLookup(dish, Null)
    ELSE [dish |-> dish, pc |-> "search", term |-> 1, cand |-> 0, ncands |-> 0,
          url |-> Null, out |-> dish,
          log |-> LogIssued([dish |-> dish, log |-> <<>>], 1)]

\* getWikipediaImage moves on to the next search term, or returns null
NextTerm(l) ==
    IF l.term < Len(SearchTerms(Get(l.dish, "name").s))
    THEN [l EXCEPT !.pc = "search", !.term = l.term + 1, !.cand = 0, !.ncands = 0,
                   !.log = LogIssued(l, l.term + 1)]
    ELSE Settle(l, Null)

\* variant of NextCandidate that passes over a search result
NextCandidateSkipping(l) ==
    IF l.cand + 1 < l.ncands
    THEN [l EXCEPT !.cand = l.cand + 2, !.log = LogAsked(l)]
    ELSE NextTerm(l)

\* getWikipediaImage moves on to the next search result of the term
NextCandidate(l) ==
    IF l.cand < l.ncands
    THEN [l EXCEPT !.cand = l.cand + 1, !.log = LogAsked(l)]
    ELSE NextTerm(l)

AnyRejected(ls) == \E i \in 1..Len(ls) : ls[i].pc = "rejected"

AllSettled(ls) == \A i \in 1..Len(ls) : ls[i].pc = "done"

\* the model call settles: error translation, or bracket span, JSON.parse,
\* dishes.map and Promise.all up to the first await that waits for the network
HandlerReplyAborting(c) ==
    /\ backend = "handler"
    /\ Live(c)
    /\ srv[c].pc = "model"
    /\ \/ \E text \in ModelTexts(oracle) :
            LET jsonMatch == JsonMatch(text)
                parsed == JsonParse(jsonMatch)
                ls == [i \in 1..Len(parsed.v.e) |-> StartLookup(parsed.v.e[i])]
            IN  IF jsonMatch = NoMatch \/ ~parsed.ok
                THEN /\ Reply(c, Response200(text))
                     /\ srv' = [srv EXCEPT ![c].pc = "sent", ![c].text = text]
                ELSE IF AnyRejected(ls)
                THEN /\ Reply(c, [status |-> 500, err |-> ErrNoBlock, content |-> <<>>])
                     /\ srv' = [srv EXCEPT ![c].pc = "sent", ![c].text = text,
                                           ![c].lookups = ls]
                ELSE /\ srv' = [srv EXCEPT ![c].pc = "enrich", ![c].text = text,
                                           ![c].lookups = ls]
                     /\ UNCHANGED calls
       \/ /\ Reply(c, [status |-> 500, err |-> ErrNoBlock, content |-> <<>>])
          /\ srv' = [srv EXCEPT ![c].pc = "sent", ![c].thrown = NoStatus]
       \/ \E st \in UpstreamErrors :
            /\ Reply(c, ErrorResponse(st))
            /\ srv' = [srv EXCEPT ![c].pc = "sent", ![c].thrown = st]
    /\ UNCHANGED <<clientVars, budgetVars, configVars>>

HandlerReply(c) ==
    /\ backend = "handler"
    /\ Live(c)
    /\ srv[c].pc = "model"
    /\ \/ \E text \in ModelTexts(oracle) :
            LET jsonMatch == JsonMatch(text)
                parsed == JsonParse(jsonMatch)
                ls == [i \in 1..Len(parsed.v.e) |-> StartLookup(parsed.v.e[i])]
            IN  IF jsonMatch = NoMatch \/ ~parsed.ok
                THEN /\ Reply(c, Response200(text))
                     /\ srv' = [srv EXCEPT ![c].pc = "sent", ![c].text = text]
                ELSE IF AnyRejected(ls)
                THEN /\ Reply(c, Response200(text))
                     /\ srv' = [srv EXCEPT ![c].pc = "sent", ![c].text = text,
                                           ![c].lookups = ls]
                ELSE /\ srv' = [srv EXCEPT ![c].pc = "enrich", ![c].text = text,
                                           ![c].lookups = ls]
                     /\ UNCHANGED calls
       \/ /\ Reply(c, [status |-> 500, err |-> ErrNoBlock, content |-> <<>>])
          /\ srv' = [srv EXCEPT ![c].pc = "sent", ![c].thrown = NoStatus]
       \/ \E st \in UpstreamErrors :
            /\ Reply(c, ErrorResponse(st))
            /\ srv' = [srv EXCEPT ![c].pc = "sent", ![c].thrown = st]
    /\ UNCHANGED <<clientVars, budgetVars, configVars>>

\* getWikipediaImage: the search request of lookup i settles
SearchSettle(c, i) ==
    /\ Live(c)
    /\ i \in 1..Len(srv[c].lookups)
    /\ srv[c].lookups[i].pc = "search"
    /\ \E o \in SearchOutcomes :
          LET l == srv[c].lookups[i]
          IN  srv' = [srv EXCEPT ![c].lookups[i] =
                        IF o.kind # "hits"
                        THEN NextTerm(l)
                        ELSE [l EXCEPT !.pc = "summary", !.cand = 1, !.ncands = o.n,
                                       !.log = LogGot(l, o.n)]]
    /\ UNCHANGED <<clientVars, calls, budgetVars, configVars>>

\* getWikipediaImage: the summary request of lookup i settles
SummarySettle(c, i) ==
    /\ Live(c)
    /\ i \in 1..Len(srv[c].lookups)
    /\ srv[c].lookups[i].pc = "summary"
    /\ \E o \in SummaryOutcomes :
          LET l == srv[c].lookups[i]
          IN  srv' = [srv EXCEPT ![c].lookups[i] =
                        CASE o = "thumb" -> Settle(l, ThumbUrl(l.term, l.cand))
                          [] o = "throw" -> NextTerm([l EXCEPT !.log = LogThrew(l)])
                          [] OTHER -> NextCandidate(l)]
    /\ UNCHANGED <<clientVars, calls, budgetVars, configVars>>

\* variant of EnrichDone that does not wait for the lookups still pending
EnrichDoneEarly(c) ==
    /\ Live(c)
    /\ srv[c].pc = "enrich"
    /\ LET dishesWithImages == [i \in 1..Len(srv[c].lookups) |-> srv[c].lookups[i].out]
       IN  Reply(c, Response200(Stringify(Arr(dishesWithImages))))
    /\ srv' = [srv EXCEPT ![c].pc = "sent"]
    /\ UNCHANGED <<clientVars, budgetVars, configVars>>

\* variant of EnrichDone that answers the text as the model wrote it
EnrichDoneKeepsText(c) ==
    /\ Live(c)
    /\ srv[c].pc = "enrich"
    /\ AllSettled(srv[c].lookups)
    /\ Reply(c, Response200(srv[c].text))
    /\ srv' = [srv EXCEPT ![c].pc = "sent"]
    /\ UNCHANGED <<clientVars, budgetVars, configVars>>

\* Promise.all resolves: the text is replaced and the response sent
EnrichDone(c) ==
    /\ Live(c)
    /\ srv[c].pc = "enrich"
    /\ AllSettled(srv[c].lookups)
    /\ LET dishesWithImages == [i \in 1..Len(srv[c].lookups) |-> srv[c].lookups[i].out]
       IN  Reply(c, Response200(Stringify(Arr(dishesWithImages))))
    /\ srv' = [srv EXCEPT ![c].pc = "sent"]
    /\ UNCHANGED <<clientVars, budgetVars, configVars>>

-----------------------------------------------------------------------------
(* Client with the Express proxy, one upload, any response text *)

InitClient ==
    /\ imageFile = NULL
    /\ imagePreview = NULL
    /\ isProcessing = FALSE
    /\ matchedTerms = <<>>
    /\ error = NULL
    /\ calls = <<>>
    /\ srv = <<>>

InitParser ==
    /\ InitClient
    /\ variant \in Variants
    /\ backend = "express"
    /\ oracle = "any"
    /\ uploadsLeft \in {0, 1}
    /\ directLeft = 1 - uploadsLeft

NextParser ==
    \/ \E f \in Files \cup {NoFile} : Upload(f)
    \/ \E c \in 1..Len(calls) : PreviewRead(c)
    \/ \E c \in 1..Len(calls) : B64Read(c)
    \/ \E c \in 1..Len(calls) : FetchFail(c)
    \/ \E c \in 1..Len(calls) : Respond(c)
    \/ \E c \in 1..Len(calls) : Receive(c)
    \/ \E c \in 1..Len(calls) : ExpressReply(c)
    \/ \E req \in DirectRequests : DirectRequest(req)
    \/ Reset

SpecParser == InitParser /\ [][NextParser]_vars

(* Client with the serverless handler, one request *)

Init ==
    /\ InitClient
    /\ variant = "list"
    /\ backend = "handler"
    /\ oracle = "dishes"
    /\ uploadsLeft \in {0, 1}
    /\ directLeft = 1 - uploadsLeft

Next ==
    \/ \E f \in Files \cup {NoFile} : Upload(f)
    \/ \E c \in 1..Len(calls) : PreviewRead(c)
    \/ \E c \in 1..Len(calls) : B64Read(c)
    \/ \E c \in 1..Len(calls) : FetchFail(c)
    \/ \E c \in 1..Len(calls) : Respond(c)
    \/ \E c \in 1..Len(calls) : Receive(c)
    \/ \E c \in 1..Len(calls) : HandlerReply(c)
    \/ \E c \in 1..Len(calls) : \E i \in 1..Len(srv[c].lookups) : SearchSettle(c, i)
    \/ \E c \in 1..Len(calls) : \E i \in 1..Len(srv[c].lookups) : SummarySettle(c, i)
    \/ \E c \in 1..Len(calls) : EnrichDone(c)
    \/ \E req \in DirectRequests : DirectRequest(req)
    \/ Reset

Spec == Init /\ [][Next]_vars

(* Client with the Express proxy, several uploads *)

InitLifetime ==
    /\ InitClient
    /\ variant = "list"
    /\ backend = "express"
    /\ oracle = "few"
    /\ uploadsLeft = MaxUploads
    /\ directLeft = 0

NextLifetime ==
    \/ \E f \in Files \cup {NoFile} : Upload(f)
    \/ \E c \in 1..Len(calls) : PreviewRead(c)
    \/ \E c \in 1..Len(calls) : B64Read(c)
    \/ \E c \in 1..Len(calls) : FetchFail(c)
    \/ \E c \in 1..Len(calls) : Respond(c)
    \/ \E c \in 1..Len(calls) : Receive(c)
    \/ \E c \in 1..Len(calls) : ExpressReply(c)
    \/ Reset

SpecLifetime == InitLifetime /\ [][NextLifetime]_vars

(* The serverless handler enriching one dish *)

InitLookup ==
    /\ InitClient
    /\ variant = "list"
    /\ backend = "handler"
    /\ oracle = "lookup"
    /\ uploadsLeft = 0
    /\ directLeft = 1

NextLookup ==
    \/ \E req \in DirectRequests : DirectRequest(req)
    \/ \E c \in 1..Len(calls) : Receive(c)
    \/ \E c \in 1..Len(calls) : HandlerReply(c)
    \/ \E c \in 1..Len(calls) : \E i \in 1..Len(srv[c].lookups) : SearchSettle(c, i)
    \/ \E c \in 1..Len(calls) : \E i \in 1..Len(srv[c].lookups) : SummarySettle(c, i)
    \/ \E c \in 1..Len(calls) : EnrichDone(c)

SpecLookup == InitLookup /\ [][NextLookup]_vars

\* every request a lookup has issued eventually settles: the awaited fetch of
\* a search or of a summary resolves or rejects
SpecLookupFair ==
    /\ SpecLookup
    /\ \A c \in 1..1 : \A i \in 1..1 :
          /\ WF_vars(SearchSettle(c, i))
          /\ WF_vars(SummarySettle(c, i))

(* The two servers answering one request *)

InitServe ==
    /\ InitClient
    /\ variant = "list"
    /\ backend \in {"express", "handler"}
    /\ oracle = "serve"
    /\ uploadsLeft = 0
    /\ directLeft = 1

NextServe ==
    \/ \E req \in DirectRequests : DirectRequest(req)
    \/ \E c \in 1..Len(calls) : Receive(c)
    \/ \E c \in 1..Len(calls) : ExpressReply(c)
    \/ \E c \in 1..Len(calls) : HandlerReply(c)
    \/ \E c \in 1..Len(calls) : \E i \in 1..Len(srv[c].lookups) : SearchSettle(c, i)
    \/ \E c \in 1..Len(calls) : \E i \in 1..Len(srv[c].lookups) : SummarySettle(c, i)
    \/ \E c \in 1..Len(calls) : EnrichDone(c)

\* the route handler runs once the request has arrived, every awaited call
\* (the model, a search, a summary) settles, and the continuation after
\* Promise.all runs
SpecServe ==
    /\ InitServe
    /\ [][NextServe]_vars
    /\ \A c \in 1..1 :
          /\ WF_vars(Receive(c))
          /\ WF_vars(ExpressReply(c))
          /\ WF_vars(HandlerReply(c))
          /\ WF_vars(EnrichDone(c))
          /\ \A i \in 1..2 :
                /\ WF_vars(SearchSettle(c, i))
                /\ WF_vars(SummarySettle(c, i))

TypeOK ==
    /\ variant \in Variants
    /\ isProcessing \in BOOLEAN
    /\ Len(calls) = Len(srv)

-----------------------------------------------------------------------------
(* Vocabulary of the properties *)

\* the step of processImage that consumes the response of call c
RespondStep(c) ==
    /\ calls[c].pc = "fetch"
    /\ calls[c].resp # NoResp
    /\ calls'[c].pc = "done"

\* call c has consumed a response and the page has not been reset since
Responded(c) ==
    /\ calls[c].pc = "done"
    /\ calls[c].resp # NoResp
    /\ imagePreview # NULL

\* the response of call c carries a text block
HasText(c) ==
    /\ calls[c].resp.status = 200
    /\ Len(calls[c].resp.content) > 0

TextOf(c) == calls[c].resp.content[1]

HasSpan(text) == JsonMatch(text) # NoMatch

Decoded(text) == JsonParse(JsonMatch(text))

Decodes(text) == HasSpan(text) /\ Decoded(text).ok

IsText(v) == v.t = "str" /\ Len(v.s) >= 1

IsPercent(v) == v.t = "num" /\ v.n >= 0 /\ v.n <= 100

\* the element carries the fields the variant asks for
HasFields(v, item) ==
    /\ item.t = "obj"
    /\ {"name", "definition"} \subseteq DOMAIN item.f
    /\ v = "marker" =>
          /\ "position" \in DOMAIN item.f
          /\ item.f.position.t = "obj"
          /\ {"x", "y"} \subseteq DOMAIN item.f.position.f
          /\ item.f.position.f.x.t = "num"
          /\ item.f.position.f.y.t = "num"

\* the element is a MenuItem of the data model
IsMenuItem(v, item) ==
    /\ HasFields(v, item)
    /\ IsText(item.f.name)
    /\ IsText(item.f.definition)
    /\ v = "marker" => IsPercent(item.f.position.f.x) /\ IsPercent(item.f.position.f.y)

\* text[i..j] is a well-formed array of MenuItems
Embedded(v, text, i, j) ==
    /\ i < j
    /\ text[i] = LB
    /\ text[j] = RB
    /\ JsonParse(SubSeq(text, i, j)).ok
    /\ \A k \in 1..Len(JsonParse(SubSeq(text, i, j)).v.e) :
          IsMenuItem(v, JsonParse(SubSeq(text, i, j)).v.e[k])

-----------------------------------------------------------------------------
(* C1 *)

\* C1: whenever the bracket span of a response decodes, processImage leaves
\* in matchedTerms either the whole decoded array or the empty list, never a
\* filtered part of it; it is the whole array when every element has a name
\* and a definition (and numeric position.x, position.y in the marker
\* variant), and it is a non-empty array only if every element has them.
C1_FailClosed ==
    [][\A c \in 1..Len(calls) :
          (RespondStep(c) /\ HasText(c) /\ Decodes(TextOf(c))) =>
             LET A == Decoded(TextOf(c)).v.e
             IN  /\ matchedTerms' = A \/ matchedTerms' = <<>>
                 /\ (\A i \in 1..Len(A) :
                        /\ HasFields(variant, A[i])
                        /\ Truthy(A[i].f.name)
                        /\ Truthy(A[i].f.definition)) => matchedTerms' = A
                 /\ matchedTerms' # <<>> =>
                       \A i \in 1..Len(A) : HasFields(variant, A[i])]_vars

\* three elements, one of them without definition, the other two complete
C1_Witness ==
    \E c \in 1..Len(calls) :
       /\ Responded(c) /\ HasText(c) /\ Decodes(TextOf(c))
       /\ LET A == Decoded(TextOf(c)).v.e
          IN  /\ Len(A) = 3
              /\ \E i \in 1..3 :
                    /\ A[i] = Obj([name |-> sArancini])
                    /\ \A j \in (1..3) \ {i} : IsMenuItem(variant, A[j])
       /\ matchedTerms = <<>>
       /\ error = NULL

-----------------------------------------------------------------------------
(* C2 *)

\* C2 as stated: whatever the prose before and after one well-formed array of
\* MenuItems, matchedTerms is that array and no error is raised.
C2_AnyProse ==
    [][\A c \in 1..Len(calls) :
          (RespondStep(c) /\ HasText(c)) =>
             \A i, j \in 1..Len(TextOf(c)) :
                Embedded(variant, TextOf(c), i, j) =>
                   /\ matchedTerms' = JsonParse(SubSeq(TextOf(c), i, j)).v.e
                   /\ error' = NULL]_vars

\* C2: when the prose before the array holds no "[" and the prose after it no
\* "]", matchedTerms is exactly the embedded array, in order, and error stays
\* null.
C2_ProseAroundArray ==
    [][\A c \in 1..Len(calls) :
          (RespondStep(c) /\ HasText(c)) =>
             \A i, j \in 1..Len(TextOf(c)) :
                ( /\ Embedded(variant, TextOf(c), i, j)
                  /\ \A k \in 1..(i - 1) : TextOf(c)[k] # LB
                  /\ \A k \in (j + 1)..Len(TextOf(c)) : TextOf(c)[k] # RB ) =>
                   /\ matchedTerms' = JsonParse(SubSeq(TextOf(c), i, j)).v.e
                   /\ error' = NULL]_vars

\* prose, a non-empty array of MenuItems, prose
C2_Witness ==
    \E c \in 1..Len(calls) :
       /\ Responded(c) /\ HasText(c)
       /\ Len(TextOf(c)) >= 2
       /\ TextOf(c)[1] = PROSE
       /\ TextOf(c)[Len(TextOf(c))] = PROSE
       /\ Embedded(variant, TextOf(c), 2, Len(TextOf(c)) - 1)
       /\ Len(matchedTerms) >= 1
       /\ matchedTerms = JsonParse(SubSeq(TextOf(c), 2, Len(TextOf(c)) - 1)).v.e
       /\ error = NULL

-----------------------------------------------------------------------------
(* C3 *)

\* C3 as stated: every response text without a bracket span gives
\* matchedTerms = [] and leaves error null.
C3_AnyTextWithoutSpan ==
    [][\A c \in 1..Len(calls) :
          (RespondStep(c) /\ HasText(c) /\ ~HasSpan(TextOf(c))) =>
             /\ matchedTerms' = <<>>
             /\ error' = NULL]_vars

\* C3: every non-empty response text without a bracket span gives
\* matchedTerms = [] and leaves error null.
C3_NoSpanNoFailure ==
    [][\A c \in 1..Len(calls) :
          (RespondStep(c) /\ HasText(c) /\ TextOf(c) # <<>> /\ ~HasSpan(TextOf(c))) =>
             /\ matchedTerms' = <<>>
             /\ error' = NULL]_vars

\* a text with "]" before "[" , hence without span
C3_Witness ==
    \E c \in 1..Len(calls) :
       /\ Responded(c) /\ HasText(c)
       /\ \E i, j \in 1..Len(TextOf(c)) : i < j /\ TextOf(c)[i] = RB /\ TextOf(c)[j] = LB
       /\ ~HasSpan(TextOf(c))
       /\ matchedTerms = <<>>
       /\ error = NULL
       /\ ~isProcessing

-----------------------------------------------------------------------------
(* C4 *)

\* C4: when the bracket span does not decode, processImage ends normally with
\* matchedTerms = [], the parse failure recorded in error and isProcessing
\* false.
C4_MalformedJson ==
    [][\A c \in 1..Len(calls) :
          ( /\ RespondStep(c) /\ HasText(c)
            /\ HasSpan(TextOf(c)) /\ ~Decoded(TextOf(c)).ok ) =>
             /\ matchedTerms' = <<>>
             /\ error' = ErrParse
             /\ isProcessing' = FALSE
             /\ calls'[c].pc = "done"]_vars

\* a span that holds an object literal and prose, which is no JSON
C4_Witness ==
    \E c \in 1..Len(calls) :
       /\ Responded(c) /\ HasText(c)
       /\ HasSpan(TextOf(c)) /\ ~Decoded(TextOf(c)).ok
       /\ \E i \in 1..Len(JsonMatch(TextOf(c))) : JsonMatch(TextOf(c))[i].k = "val"
       /\ matchedTerms = <<>>
       /\ error = ErrParse
       /\ ~isProcessing

-----------------------------------------------------------------------------
(* C5 *)

\* what processImage leaves behind for a response text, starting from the
\* state handleImageUpload and the head of processImage set up
VisibleAfter(v, text) ==
    LET o == ClientOutcome(v, <<>>, NULL, Response200(text))
    IN  <<o.terms, o.err, FALSE>>

\* C5 as stated: after a text without bracket span the state the caller sees
\* differs from the one after a well-formed empty array.
C5_Distinguishable ==
    [][\A c \in 1..Len(calls) :
          ( /\ RespondStep(c) /\ HasText(c)
            /\ TextOf(c) # <<>> /\ ~HasSpan(TextOf(c)) ) =>
             <<matchedTerms', error', isProcessing'>> # VisibleAfter(variant, <<LB, RB>>)]_vars

\* C5: a well-formed empty array and a non-empty text without bracket span
\* both give zero items and the same caller-visible state: matchedTerms = [],
\* error null, isProcessing false, file and preview untouched.
C5_SameVisibleState ==
    [][\A c \in 1..Len(calls) :
          ( /\ RespondStep(c) /\ HasText(c) /\ TextOf(c) # <<>>
            /\ ~HasSpan(TextOf(c)) \/ JsonMatch(TextOf(c)) = <<LB, RB>> ) =>
             /\ matchedTerms' = <<>>
             /\ error' = NULL
             /\ isProcessing' = FALSE
             /\ imageFile' = imageFile
             /\ imagePreview' = imagePreview]_vars

\* an empty array inside prose has been processed
C5_Witness ==
    \E c \in 1..Len(calls) :
       /\ Responded(c) /\ HasText(c)
       /\ JsonMatch(TextOf(c)) = <<LB, RB>>
       /\ Len(TextOf(c)) > 2
       /\ matchedTerms = <<>>
       /\ error = NULL
       /\ ~isProcessing

-----------------------------------------------------------------------------
(* C6 *)

\* the condition the request and response of call c fall under
Condition(c) ==
    LET req == srv[c].req
        text == TextOf(c)
    IN  IF req.image = "" \/ req.mediaType = "" THEN "missing"
        ELSE IF req.mediaType \notin validTypes THEN "mediatype"
        ELSE IF ~HasText(c) \/ ~HasSpan(text) THEN "other"
        ELSE IF ~Decoded(text).ok THEN "malformed"
        ELSE IF Decoded(text).v.e = <<>> THEN "empty"
        ELSE IF \E i \in 1..Len(Decoded(text).v.e) :
                   ~IsMenuItem(variant, Decoded(text).v.e[i]) /\
                   Validate(variant, Decoded(text).v) # "true" THEN "schema"
        ELSE "other"

\* one response of each condition
ReferenceResponse(k) ==
    CASE k = "missing" -> MissingFieldsResponse
      [] k = "mediatype" -> MediaTypeResponse
      [] k = "malformed" -> Response200(<<LB, COMMA, RB>>)
      [] k = "empty" -> Response200(<<LB, RB>>)

\* status, error and matchedTerms the page ends with for that response
ReferenceOutcome(k) ==
    LET o == ClientOutcome(variant, <<>>, NULL, ReferenceResponse(k))
    IN  <<ReferenceResponse(k).status, o.err, o.terms>>

OutcomeKinds == {"missing", "mediatype", "malformed", "empty"}

-----------------------------------------------------------------------------
(* C7 *)

\* C7: every item in matchedTerms has a name and a definition that are
\* non-empty text.
C7_NameDefinitionText ==
    \A i \in 1..Len(matchedTerms) :
       /\ IsText(Get(matchedTerms[i], "name"))
       /\ IsText(Get(matchedTerms[i], "definition"))

-----------------------------------------------------------------------------
(* C8 *)

\* C8: in the marker variant every item in matchedTerms has position.x and
\* position.y that are numbers within [0,100].
C8_PositionInRange ==
    variant = "marker" =>
       \A i \in 1..Len(matchedTerms) :
          /\ IsPercent(Get(Get(matchedTerms[i], "position"), "x"))
          /\ IsPercent(Get(Get(matchedTerms[i], "position"), "y"))

-----------------------------------------------------------------------------
(* C9 *)

Dishes(c) == [i \in 1..Len(srv[c].lookups) |-> srv[c].lookups[i].dish]

Requesting(c, i) == srv[c].lookups[i].pc \in {"search", "summary"}

\* C9 as stated: a search or summary request is pending only for a decoded
\* list that passes the schema validation.
C9_ValidatedBeforeLookup ==
    \A c \in 1..Len(srv) : \A i \in 1..Len(srv[c].lookups) :
       Requesting(c, i) => Validate(variant, Arr(Dishes(c))) = "true"

\* C9: a search or summary request is pending only for an element with a
\* text name of the array decoded from the bracket span of the model's answer;
\* no lookup exists when there is no span or it does not decode.  The schema
\* is validated afterwards, by the page.
C9_DecodedBeforeLookup ==
    \A c \in 1..Len(srv) :
       /\ srv[c].lookups # <<>> =>
             /\ Decodes(srv[c].text)
             /\ Dishes(c) = Decoded(srv[c].text).v.e
       /\ \A i \in 1..Len(srv[c].lookups) :
             Requesting(c, i) => Get(srv[c].lookups[i].dish, "name").t = "str"

\* a summary is requested for a dish without definition
C9_Witness ==
    \E c \in 1..Len(srv) :
       /\ \E i \in 1..Len(srv[c].lookups) :
             /\ srv[c].lookups[i].pc = "summary"
             /\ srv[c].lookups[i].dish = Obj([name |-> sNorma])
       /\ Validate(variant, Arr(Dishes(c))) = "false"

-----------------------------------------------------------------------------
(* C10 *)

\* b is a with the imageUrl field set and no other field changed
AddsOnlyImageUrl(a, b) ==
    /\ a.t = "obj"
    /\ b.t = "obj"
    /\ DOMAIN b.f = DOMAIN a.f \cup {"imageUrl"}
    /\ \A k \in DOMAIN a.f \ {"imageUrl"} : b.f[k] = a.f[k]
    /\ IsText(b.f.imageUrl)

\* C10: the list in the text the handler answers has as many items as the
\* list decoded from the model's answer, in the same order, and each item is
\* the decoded item unchanged or the decoded item with imageUrl set and every
\* other field as it was.
C10_EnrichmentKeepsItems ==
    \A c \in 1..Len(srv) :
       (srv[c].pc = "sent" /\ HasText(c) /\ Decodes(srv[c].text)) =>
          LET A == Decoded(srv[c].text).v.e
          IN  /\ Decodes(TextOf(c))
              /\ Len(Decoded(TextOf(c)).v.e) = Len(A)
              /\ \A i \in 1..Len(A) :
                    \/ Decoded(TextOf(c)).v.e[i] = A[i]
                    \/ AddsOnlyImageUrl(A[i], Decoded(TextOf(c)).v.e[i])

\* two dishes were enriched: one got an image, the other came back unchanged
C10_Witness ==
    \E c \in 1..Len(srv) :
       /\ srv[c].pc = "sent"
       /\ HasText(c)
       /\ Len(srv[c].lookups) = 2
       /\ AllSettled(srv[c].lookups)
       /\ Decodes(TextOf(c))
       /\ \E i, j \in 1..2 :
             /\ i # j
             /\ AddsOnlyImageUrl(srv[c].lookups[i].dish, Decoded(TextOf(c)).v.e[i])
             /\ Decoded(TextOf(c)).v.e[j] = srv[c].lookups[j].dish
             /\ Get(srv[c].lookups[j].dish, "name").t = "str"

-----------------------------------------------------------------------------
(* C11 *)

\* the handler has answered call c with a list as long as the decoded one
Answered(c) ==
    /\ srv[c].pc = "sent"
    /\ HasText(c)
    /\ Decodes(srv[c].text)
    /\ Decodes(TextOf(c))
    /\ Len(Decoded(TextOf(c)).v.e) = Len(srv[c].lookups)

OutputItem(c, i) == Decoded(TextOf(c)).v.e[i]

HasImageUrl(item) == item.t = "obj" /\ "imageUrl" \in DOMAIN item.f

\* the lookup of item i ended with a thumbnail
Succeeded(c, i) ==
    /\ srv[c].lookups[i].pc = "done"
    /\ srv[c].lookups[i].url # Null

\* C11 as stated: an item of the answered list carries imageUrl exactly when
\* its own lookup succeeded, and then imageUrl is the URL the lookup adopted.
C11_ImageUrlIffLookup ==
    \A c \in 1..Len(srv) :
       Answered(c) =>
          \A i \in 1..Len(srv[c].lookups) :
             /\ HasImageUrl(OutputItem(c, i)) <=> Succeeded(c, i)
             /\ Succeeded(c, i) => OutputItem(c, i).f.imageUrl = srv[c].lookups[i].url

-----------------------------------------------------------------------------
(* C12 *)

NumTerms(l) == Len(SearchTerms(Get(l.dish, "name").s))

\* lookup l gives up: every term has been tried
GivesUp(l, l2) == l2.pc = "done" /\ l2.url = Null /\ l.term = NumTerms(l)

\* lookup l goes on with the search for its next term
TriesNextTerm(l, l2) == l2.pc = "search" /\ l2.term = l.term + 1

\* C12: a lookup starts with the search for its first term; a search is
\* followed by the summary of its first result, or by the search for the next
\* term; a summary is followed by the adoption of its own thumbnail, by the
\* summary of the next result of the same search, or by the search for the
\* next term; after the last term the lookup ends without URL; and a
\* settled lookup issues no request and never changes.
C12_FirstSuccessWins ==
    [][\A c \in 1..Len(srv) :
          /\ (srv[c].lookups = <<>> /\ srv'[c].lookups # <<>>) =>
                \A i \in 1..Len(srv'[c].lookups) :
                   LET l2 == srv'[c].lookups[i]
                   IN  \/ l2.pc = "search" /\ l2.term = 1
                       \/ l2.pc \in {"done", "rejected"} /\ l2.url = Null
          /\ \A i \in 1..Len(srv[c].lookups) :
                LET l == srv[c].lookups[i]
                    l2 == srv'[c].lookups[i]
                IN  l2 # l =>
                      /\ l.pc \in {"search", "summary"}
                      /\ l2.dish = l.dish
                      /\ l.pc = "search" =>
                            \/ /\ l2.pc = "summary"
                               /\ l2.term = l.term
                               /\ l2.cand = 1
                               /\ l2.ncands \in 1..srlimit
                            \/ TriesNextTerm(l, l2)
                            \/ GivesUp(l, l2)
                      /\ l.pc = "summary" =>
                            \/ l2.pc = "done" /\ l2.url = ThumbUrl(l.term, l.cand)
                            \/ /\ l2.pc = "summary"
                               /\ l2.term = l.term
                               /\ l2.cand = l.cand + 1
                               /\ l2.cand <= l.ncands
                               /\ l2.ncands = l.ncands
                            \/ TriesNextTerm(l, l2)
                            \/ GivesUp(l, l2)]_vars

\* the first term gave no image and the second result of the second term
\* is the first to answer a thumbnail: its URL is adopted
C12_Witness ==
    \E c \in 1..Len(srv) : \E i \in 1..Len(srv[c].lookups) :
       /\ srv[c].lookups[i].pc = "done"
       /\ srv[c].lookups[i].url = ThumbUrl(2, 2)
       /\ HasImageUrl(srv[c].lookups[i].out)
       /\ srv[c].lookups[i].out.f.imageUrl = ThumbUrl(2, 2)

-----------------------------------------------------------------------------
(* C13 *)

\* the lookup of item i ended without image, or the callback of the item threw
Failed(c, i) ==
    \/ srv[c].lookups[i].pc = "rejected"
    \/ srv[c].lookups[i].pc = "done" /\ srv[c].lookups[i].url = Null

\* C13 as stated: when the handler has answered a decoded list, the answer
\* holds every item, and whenever the lookup of one item failed, every other
\* item whose lookup succeeded is answered with the URL it adopted.
C13_FailureIsolation ==
    \A c \in 1..Len(srv) :
       (srv[c].pc = "sent" /\ HasText(c) /\ Decodes(srv[c].text)) =>
          /\ Decodes(TextOf(c))
          /\ Len(Decoded(TextOf(c)).v.e) = Len(Decoded(srv[c].text).v.e)
          /\ \A i, j \in 1..Len(srv[c].lookups) :
                (i # j /\ Failed(c, j) /\ Succeeded(c, i)) =>
                   /\ HasImageUrl(OutputItem(c, i))
                   /\ OutputItem(c, i).f.imageUrl = srv[c].lookups[i].url

-----------------------------------------------------------------------------
(* C14 *)

\* C14 as stated: once the handler has sent its response no lookup of the
\* request is waiting for a search or a summary.
C14_NoEarlyExit ==
    \A c \in 1..Len(srv) :
       srv[c].pc = "sent" =>
          \A i \in 1..Len(srv[c].lookups) : ~Requesting(c, i)

-----------------------------------------------------------------------------
(* C15 *)

DecodesEmpty(text) == Decodes(text) /\ Decoded(text).v = Arr(<<>>)

\* C15: when the list decoded from the model's answer is empty the handler
\* starts no lookup, and the text it answers is the empty list, whatever
\* stood around the brackets in the model's answer.
C15_EmptyList ==
    \A c \in 1..Len(srv) :
       DecodesEmpty(srv[c].text) =>
          /\ srv[c].lookups = <<>>
          /\ srv[c].pc \in {"enrich", "sent"}
          /\ srv[c].pc = "sent" => (HasText(c) /\ TextOf(c) = <<LB, RB>>)

\* the model wrote prose before an empty list and the handler has answered
C15_Witness ==
    \E c \in 1..Len(srv) :
       /\ srv[c].text = <<PROSE, LB, RB>>
       /\ srv[c].pc = "sent"
       /\ TextOf(c) = <<LB, RB>>

-----------------------------------------------------------------------------
(* C16 *)

\* a POST whose body lacks a field or names an unsupported media type
InvalidRequest(req) ==
    /\ req.method = "POST"
    /\ \/ req.image = ""
       \/ req.mediaType = ""
       \/ req.mediaType \notin {"image/jpeg", "image/png", "image/gif", "image/webp"}

\* C16: a POST with a missing image, a missing mediaType or an unsupported
\* mediaType never reaches the call of the vision model nor a lookup, and is
\* answered with status 400; and for a file of an unsupported type the page
\* issues no request to /api/analyze.
C16_RejectedBeforeNetwork ==
    \A c \in 1..Len(srv) :
       /\ InvalidRequest(srv[c].req) =>
             /\ srv[c].pc \in {"recv", "sent"}
             /\ srv[c].text = <<>>
             /\ srv[c].lookups = <<>>
             /\ srv[c].pc = "sent" => calls[c].resp.status = 400
       /\ (calls[c].file # NoFile
           /\ FileType(calls[c].file)
                 \notin {"image/jpeg", "image/png", "image/gif", "image/webp"}) =>
             /\ srv[c].pc = "none"
             /\ calls[c].pc \in {"readPreview", "done"}
             /\ calls[c].resp = NoResp

\* a POST naming text/plain has been answered with 400
C16_Witness ==
    \E c \in 1..Len(srv) :
       /\ srv[c].req = [method |-> "POST", image |-> "b64", mediaType |-> "text/plain"]
       /\ srv[c].pc = "sent"
       /\ calls[c].resp = MediaTypeResponse

\* a text file was uploaded and refused by the page
C16_WitnessPage ==
    \E c \in 1..Len(calls) :
       /\ calls[c].file = "notes.txt"
       /\ calls[c].pc = "done"
       /\ error = ErrFileType

-----------------------------------------------------------------------------
(* C17 *)

\* the status the handler answers to an error thrown with status st
TranslatedStatus(st) ==
    IF st = 401 THEN 401
    ELSE IF st = 429 THEN 429
    ELSE IF st >= 500 THEN 502
    ELSE 500

\* C17: an error of the model call with status 401 is answered 401, with
\* status 429 answered 429, with a status of 500 or more answered 502, any
\* other error answered 500; the messages of the four outcomes differ; and
\* the page puts the message of a failed response into error as it is.
C17_UpstreamTranslation ==
    /\ [](\A c \in 1..Len(srv) :
            srv[c].thrown # 0 =>
               /\ srv[c].pc = "sent"
               /\ calls[c].resp.status = TranslatedStatus(srv[c].thrown)
               /\ calls[c].resp.content = <<>>
               /\ calls[c].resp.err # ""
               /\ calls[c].resp.status = 401 <=> calls[c].resp.err = ErrApiKey
               /\ calls[c].resp.status = 429 <=> calls[c].resp.err = ErrRate
               /\ calls[c].resp.status = 502 <=> calls[c].resp.err = ErrUpstream)
    /\ [][\A c \in 1..Len(calls) :
            (RespondStep(c) /\ calls[c].resp.status \notin 200..299) =>
               /\ error' = calls[c].resp.err
               /\ matchedTerms' = matchedTerms
               /\ isProcessing' = FALSE]_vars

\* the model call failed with 503 and the page shows the handler's message
C17_Witness ==
    \E c \in 1..Len(calls) :
       /\ srv[c].thrown = 503
       /\ calls[c].resp.status = 502
       /\ calls[c].pc = "done"
       /\ calls[c].fetches = 1
       /\ error = ErrUpstream

-----------------------------------------------------------------------------
(* C18 *)

-----------------------------------------------------------------------------
(* C19 *)

\* the model's answer for request c decodes to MenuItems made of a name and
\* a definition only
PlainItems(c) ==
    /\ Decodes(srv[c].text)
    /\ \A i \in 1..Len(Decoded(srv[c].text).v.e) :
          /\ IsMenuItem("list", Decoded(srv[c].text).v.e[i])
          /\ DOMAIN Decoded(srv[c].text).v.e[i].f = {"name", "definition"}

\* every lookup of request c ended without image
IndexAlwaysFailed(c) ==
    /\ Len(srv[c].lookups) = Len(Decoded(srv[c].text).v.e)
    /\ \A i \in 1..Len(srv[c].lookups) :
          srv[c].lookups[i].pc = "done" /\ srv[c].lookups[i].url = Null

\* C19: when the model's answer decodes to N items of name and definition
\* and every lookup fails, the text the handler answers decodes to the same
\* N items in the same order, none with imageUrl, and the page, on
\* receiving it, puts exactly these N items into matchedTerms and sets no
\* error.
C19_RoundTrip ==
    /\ [](\A c \in 1..Len(srv) :
            (srv[c].pc = "sent" /\ PlainItems(c) /\ IndexAlwaysFailed(c)) =>
               /\ HasText(c)
               /\ Decodes(TextOf(c))
               /\ Decoded(TextOf(c)).v.e = Decoded(srv[c].text).v.e
               /\ \A i \in 1..Len(srv[c].lookups) : ~HasImageUrl(OutputItem(c, i)))
    /\ [][\A c \in 1..Len(calls) :
            (RespondStep(c) /\ srv[c].pc = "sent" /\ PlainItems(c)
               /\ IndexAlwaysFailed(c)) =>
               /\ matchedTerms' = Decoded(srv[c].text).v.e
               /\ error' = error]_vars

\* two dishes went through the handler with every lookup failing and are
\* shown by the page
C19_Witness ==
    \E c \in 1..Len(calls) :
       /\ calls[c].pc = "done"
       /\ calls[c].fetches = 1
       /\ srv[c].pc = "sent"
       /\ PlainItems(c)
       /\ IndexAlwaysFailed(c)
       /\ Len(srv[c].lookups) = 2
       /\ matchedTerms = Decoded(srv[c].text).v.e
       /\ error = NULL

-----------------------------------------------------------------------------
(* C20 *)

\* a handleImageUpload newer than the one of call c has run
Superseded(c) == \E d \in (c + 1)..Len(calls) : calls[d].file # NoFile

\* C20 as stated, for the newer upload: once a newer handleImageUpload has
\* run, the response of an earlier request puts nothing into matchedTerms.
C20_ItemLifetime ==
    [][\A c \in 1..Len(calls) :
          (RespondStep(c) /\ Superseded(c)) => matchedTerms' = matchedTerms]_vars

-----------------------------------------------------------------------------
(* C21, C22, C23 : the Image Preprocessor of the design *)

\* the parameters the design gives as examples: D = 1600 pixels,
\* B = 3.5 MB (in units of 0.5 MB), q0 = 0.8, qmin = 0.2, step = 0.1 (in tenths)
Budget == [D |-> 1600, B |-> 7, q0 |-> 8, qmin |-> 2, step |-> 1]

MaxOf(a, b) == IF a >= b THEN a ELSE b

\* a dimension after the uniform scale D / max(w, h), rounded down
Scaled(x, w, h) ==
    IF MaxOf(w, h) > Budget.D THEN (x * Budget.D) \div MaxOf(w, h) ELSE x

\* ceil((q0 - qmin) / step) + 1
MaxAttempts == ((Budget.q0 - Budget.qmin + Budget.step - 1) \div Budget.step) + 1

\* the page has posted the file of call c to /api/analyze
Posted(c) == calls[c].fetches >= 1

\* C21 as stated: the image posted has the source dimensions scaled down by
\* D / max(w, h), rounded down, when max(w, h) > D, and unchanged otherwise;
\* so its larger dimension is at most D and no dimension has grown.
C21_Dimensions ==
    \A c \in 1..Len(calls) :
       Posted(c) =>
          LET src == FilePixels(calls[c].file)
              img == PostedImage(calls[c].file)
          IN  /\ img.w = Scaled(src.w, src.w, src.h)
              /\ img.h = Scaled(src.h, src.w, src.h)
              /\ MaxOf(img.w, img.h) <= Budget.D
              /\ img.w <= src.w
              /\ img.h <= src.h

\* C22 as stated: the image posted went through at least one and at most
\* ceil((q0 - qmin) / step) + 1 encodings, exactly one when the result is
\* within B at the starting quality, and it is larger than B only with the
\* quality at the floor qmin.
C22_QualityLoop ==
    \A c \in 1..Len(calls) :
       Posted(c) =>
          LET img == PostedImage(calls[c].file)
          IN  /\ img.encodes \in 1..MaxAttempts
              /\ (img.bytes <= Budget.B /\ img.q = Budget.q0) => img.encodes = 1
              /\ img.bytes > Budget.B => img.q = Budget.qmin

\* C23 as stated: the body of every request the page posts holds a
\* re-encoded image, never the file as uploaded: it is within B bytes, or at
\* the lowest quality, and its larger dimension is at most D.
C23_PreprocessedBeforeSend ==
    \A c \in 1..Len(calls) :
       (srv[c].req # NoReq /\ calls[c].file # NoFile) =>
          LET img == PostedImage(calls[c].file)
          IN  /\ img.encodes >= 1
              /\ img.bytes <= Budget.B \/ img.q = Budget.qmin
              /\ MaxOf(img.w, img.h) <= Budget.D

-----------------------------------------------------------------------------
(* C24 *)

\* the list the callbacks return, from what each lookup adopted
EnrichedList(c) ==
    [i \in 1..Len(srv[c].lookups) |->
        MapResult(srv[c].lookups[i].dish, srv[c].lookups[i].url)]

\* C24: the items the lookups were started on stay the elements decoded from
\* the model's answer; a step of one lookup changes neither another lookup,
\* nor the model's text, nor the response; and the response carries a text
\* other than the model's only as the first and only response of the
\* request, sent when every lookup has settled, its list being made, item
\* by item, from the decoded item and the URL its own lookup adopted (so it
\* does not depend on the order in which the lookups ran).
C24_NoSharedState ==
    /\ [](\A c \in 1..Len(srv) :
            srv[c].lookups # <<>> => Dishes(c) = Decoded(srv[c].text).v.e)
    /\ [][\A c \in 1..Len(srv) :
            /\ \A i \in 1..Len(srv[c].lookups) :
                  srv'[c].lookups[i] # srv[c].lookups[i] =>
                     /\ \A j \in 1..Len(srv[c].lookups) :
                           j # i => srv'[c].lookups[j] = srv[c].lookups[j]
                     /\ srv'[c].text = srv[c].text
                     /\ calls'[c].resp = calls[c].resp
            /\ (/\ calls'[c].resp # calls[c].resp
                /\ calls'[c].resp.status = 200
                /\ calls'[c].resp.content # <<>>
                /\ calls'[c].resp.content[1] # srv'[c].text) =>
                  /\ calls[c].resp = NoResp
                  /\ srv[c].pc = "enrich"
                  /\ AllSettled(srv[c].lookups)
                  /\ srv'[c].lookups = srv[c].lookups
                  /\ calls'[c].resp.content[1] = Stringify(Arr(EnrichedList(c)))
            /\ calls[c].resp # NoResp => calls'[c].resp = calls[c].resp]_vars

\* two lookups ran side by side, both adopted a URL, and the answered text
\* is the new list
C24_Witness ==
    \E c \in 1..Len(srv) :
       /\ srv[c].pc = "sent"
       /\ Len(srv[c].lookups) = 2
       /\ Succeeded(c, 1)
       /\ Succeeded(c, 2)
       /\ srv[c].lookups[1].url # srv[c].lookups[2].url
       /\ HasText(c)
       /\ TextOf(c) # srv[c].text
       /\ TextOf(c) = Stringify(Arr(EnrichedList(c)))

(* The history of one lookup *)

LookupsOf(c) == {srv[c].lookups[i] : i \in 1..Len(srv[c].lookups)}

\* every result the search of log entry e returned had its summary requested
RequestedAll(e) == e.asked = e.got

\* lookup l ended with no image
EndedWithout(l) == l.pc = "done" /\ l.url = Null

\* C25: a lookup ends without an image only after every one of its search
\* terms was queried and every result of every term had its summary
\* requested; a failed summary request moves on to the next result of the
\* same term, so a lookup leaves a term only with all its results requested
C25_Exhausted ==
    \A c \in 1..Len(srv) : \A l \in LookupsOf(c) :
       /\ EndedWithout(l) =>
             /\ Len(l.log) = NumTerms(l)
             /\ \A k \in 1..Len(l.log) : RequestedAll(l.log[k])
       /\ \A k \in 1..Len(l.log) : k < Len(l.log) => RequestedAll(l.log[k])

\* s without the characters of set gone, in the same order
RECURSIVE Without(_, _)
Without(s, gone) ==
    IF s = <<>> THEN <<>>
    ELSE IF Head(s) \in gone THEN Without(Tail(s), gone)
    ELSE <<Head(s)>> \o Without(Tail(s), gone)

\* t is u with the blanks at both ends cut off
IsTrimOf(t, u) ==
    /\ t # <<>> => Head(t) # " " /\ t[Len(t)] # " "
    /\ \E lo \in 1..(Len(u) + 1) : \E hi \in 0..Len(u) :
          /\ t = SubSeq(u, lo, hi)
          /\ \A j \in 1..Len(u) : (j < lo \/ j > hi) => u[j] = " "

\* term is what the k-th search of a lookup for name must ask for
IsKthTerm(term, k, name) ==
    CASE k = 1 -> term = name
      [] k = 2 -> term = name \o <<" ", "f", "o", "o", "d">>
      [] k = 3 -> term = name \o <<" ", "d", "i", "s", "h">>
      [] k = 4 -> IsTrimOf(term, Without(name, {"(", ")"}))
      [] OTHER -> FALSE

Waiting(c, i) ==
    /\ c \in 1..Len(srv)
    /\ i \in 1..Len(srv[c].lookups)
    /\ srv[c].lookups[i].pc \in {"search", "summary"}

\* lookup i of call c returned a URL or null
Returned(c, i) ==
    /\ c \in 1..Len(srv)
    /\ i \in 1..Len(srv[c].lookups)
    /\ srv[c].lookups[i].pc = "done"
    /\ srv[c].lookups[i].url.t \in {"str", "null"}

RECURSIVE SumAsked(_)
SumAsked(log) == IF log = <<>> THEN 0 ELSE Head(log).asked + SumAsked(Tail(log))

\* C27: a lookup issues at most 4 search requests, requests at most 3
\* summaries per term and at most 12 in all, and, every issued request
\* settling, a lookup that waits for a request eventually returns a URL or null
C27_BoundedLookup ==
    /\ [](\A c \in 1..Len(srv) : \A l \in LookupsOf(c) :
             /\ Len(l.log) <= 4
             /\ \A k \in 1..Len(l.log) : l.log[k].asked <= 3
             /\ SumAsked(l.log) <= 12)
    /\ \A c \in 1..1 : \A i \in 1..1 : Waiting(c, i) ~> Returned(c, i)

\* a lookup returned null after 4 searches and 12 summaries
C27_Witness ==
    \E c \in 1..Len(srv) : \E l \in LookupsOf(c) :
       /\ EndedWithout(l)
       /\ Len(l.log) = 4
       /\ SumAsked(l.log) = 12

\* the model's answer of call c arrives as a text block
TextArrives(c) ==
    /\ srv[c].pc = "model"
    /\ srv'[c].pc # "model"
    /\ srv'[c].thrown = 0

\* reading a property of some element of the decoded list throws
HasUnreadableItem(text) ==
    /\ Decodes(text)
    /\ \E i \in 1..Len(Decoded(text).v.e) : GetThrows(Decoded(text).v.e[i])

\* the response of call c is the success response carrying text
SuccessWith(resp, text) == resp.status = 200 /\ resp.content = <<text>>

\* C28: when the model's text has no decodable bracket span, or the
\* enrichment as a whole fails, the handler answers success with the
\* model's text unchanged; a handler that has the model's text never answers
\* an error; and an answered text other than the model's is the
\* serialisation of the list with every lookup settled
C28_GracefulDegradation ==
    [][\A c \in 1..Len(calls) :
          /\ (/\ c \in 1..Len(srv)
              /\ TextArrives(c)
              /\ ~Decodes(srv'[c].text) \/ HasUnreadableItem(srv'[c].text)) =>
                 SuccessWith(calls'[c].resp, srv'[c].text)
          /\ (/\ c \in 1..Len(srv)
              /\ calls[c].resp = NoResp
              /\ calls'[c].resp # NoResp
              /\ srv'[c].pc = "sent"
              /\ srv'[c].thrown = 0
              /\ srv[c].pc \in {"model", "enrich"}) =>
                 \/ SuccessWith(calls'[c].resp, srv'[c].text)
                 \/ /\ AllSettled(srv[c].lookups)
                    /\ SuccessWith(calls'[c].resp, Stringify(Arr(EnrichedList(c))))]_vars

\* the list of the answer had an element whose lookup could not start, and
\* the answer was success with the model's text
C28_Witness ==
    \E c \in 1..Len(srv) :
       /\ srv[c].pc = "sent"
       /\ HasUnreadableItem(srv[c].text)
       /\ Len(srv[c].lookups) = 2
       /\ SuccessWith(calls[c].resp, srv[c].text)

\* the bracket span of the answer did not decode, and the answer was success
\* with the model's text
C28_WitnessUndecoded ==
    \E c \in 1..Len(srv) :
       /\ srv[c].pc = "sent"
       /\ HasSpan(srv[c].text)
       /\ ~Decoded(srv[c].text).ok
       /\ SuccessWith(calls[c].resp, srv[c].text)

\* request c has reached the route handler
Arrived(c) == c \in 1..Len(srv) /\ srv[c].pc # "none"

\* request c has had one response
Replied(c) == c \in 1..Len(calls) /\ calls[c].replies = 1

\* C29: the server sends at most one response to a request, a handler that
\* has finished has sent one, and, every awaited call settling, a request
\* that arrived eventually has its one response
C29_OneResponse ==
    /\ [](\A c \in 1..Len(calls) :
             /\ calls[c].replies <= 1
             /\ calls[c].replies = 1 <=> calls[c].resp # NoResp
             /\ srv[c].pc = "sent" => calls[c].replies = 1)
    /\ \A c \in 1..1 : Arrived(c) ~> Replied(c)

\* the response went out once while a lookup was still running, and the
\* lookup has adopted a URL since
C29_Witness ==
    \E c \in 1..Len(srv) :
       /\ backend = "handler"
       /\ srv[c].pc = "sent"
       /\ AnyRejected(srv[c].lookups)
       /\ \E l \in LookupsOf(c) : l.pc = "done" /\ l.url # Null
       /\ calls[c].replies = 1

\* the processImage invocation of call c has started and not finished
InProcessImage(c) == calls[c].pc \in {"readB64", "fetch"}

\* the analysis request of call c is in flight
InFlight(c) == calls[c].pc = "fetch"

\* C30: isProcessing is true exactly while some processImage invocation has
\* started and not finished; it is never false while an analysis request
\* is in flight
C30_IsProcessing ==
    /\ isProcessing <=> \E c \in 1..Len(calls) : InProcessImage(c)
    /\ (\E c \in 1..Len(calls) : InFlight(c)) => isProcessing

====
